---- MODULE Spec2Model ----
(***************************************************************************)
(* GDSS for Software Engineer Selection (main.py).                         *)
(*                                                                         *)
(* Four specifications over one set of variables:                          *)
(*   EngineSpec  the aggregation of results() (WP per user, Borda count,   *)
(*               ranks) applied to drawn candidate, criteria and vote      *)
(*               lists;                                                    *)
(*   SingleSpec  the same aggregation with one user and one criterion of   *)
(*               weight 1.0;                                               *)
(*   Spec        the service: POST /rate handled one request at a time,    *)
(*               over the in-memory store (MOCK_MODE) or the database;     *)
(*   ConcSpec    two POST /rate requests served by concurrent workers.     *)
(*                                                                         *)
(* Floats.  A weight w is the integer 0 or 1 standing for 0.0 and 1.0, and *)
(* a composite score S is the exact fraction n/d.  For at most two         *)
(* criteria, scores in 1..100 clamped as in the code and these weights,    *)
(* the order and the equality of the exact fractions are those of the      *)
(* IEEE doubles the code computes (compared exhaustively over the score    *)
(* sets used here); with three criteria float products stop being          *)
(* associative, which is why the catalogs drawn hold at most two.          *)
(*                                                                         *)
(* The database.  database.py is not part of the sources read here; db is  *)
(* three lists with the meaning the calls have in pymongo (count_documents,*)
(* find_one, insert_many), created documents being the documents given.    *)
(* A database call that raises inside ensure_seed_data() is an input of    *)
(* the handlers (dbFails); the claims on POST /rate are settled on the     *)
(* in-memory store, which main.py defines in full.                         *)
(***************************************************************************)
EXTENDS Integers, Sequences, FiniteSets, TLC

\* ------------------------------------------------------------ input domains

MaxVotes == 2
MaxSingleVotes == 3
MaxRates == 2

\* the ids of DEFAULT_CANDIDATES; the lists drawn are its prefixes
AllCandidateIds == <<"cand-1", "cand-2", "cand-3", "cand-4", "cand-5">>

CandidateCounts == 0..3

CandidateLists ==
    { [i \in 1..n |-> [id |-> AllCandidateIds[i]]] : n \in CandidateCounts }

\* a vote may name any of these, in the candidate list or not
VoteCandidateIds == { AllCandidateIds[i] : i \in CandidateCounts \ {0} }

EngineUserIds == {"u1", "u2"}

EngineCriteriaIds == <<"k1", "k2">>

CriterionKinds == [weight : {0, 1}, type : {"Benefit", "Cost"}]

Catalogs ==
    { [i \in DOMAIN ks |-> [id |-> EngineCriteriaIds[i],
                             weight |-> ks[i].weight,
                             type |-> ks[i].type]] :
        ks \in UNION { [1..m -> CriterionKinds] : m \in 0..2 } }

ScoreSet == {60, 100}

EngineVotes ==
    [userId : EngineUserIds, candidateId : VoteCandidateIds,
     criteriaId : {"k1", "k2"}, scoreValue : ScoreSet]

NoData == [status |-> 0, data |-> <<>>]

\* POST /rate payloads: "dm-1" is a seeded decision maker, "bogus" is in no
\* criteria catalog, and candidateId is not validated by the handler
RateUserIds == {"dm-1", "staff-7"}

RateCandidateIds == {"cand-1"}

RateScoreInputs == [criteriaId : {"coding", "comm", "bogus"}, scoreValue : {50}]

ScoreListLengths == 0..2

RatePayloads ==
    [userId : RateUserIds, candidateId : RateCandidateIds,
     scores : UNION { [1..n -> RateScoreInputs] : n \in ScoreListLengths }]

\* hash() of a str is salted per process, so adjust is any of -7..7 for every
\* seeded vote; one seeding draws one of these for all its votes
AdjustValues == {-7, 7}

WorkerIds == {1, 2}

VARIABLES
    MOCK_MODE,    \* the module global
    MEM,          \* the in-memory store: candidates, criteria, votes, users
    db,           \* the database collections candidate, criterion, vote
    ok_responses, \* per (userId, candidateId): the "ok" responses of /rate
    last,         \* the last response sent
    workers,      \* per worker: where its /rate request stands
    candidates,   \* the candidate list results() reads
    criteria,     \* the criteria list results() reads
    votes,        \* the vote list results() reads
    wp_scores,    \* results(): S of every user, as left by the last call
    user_rankings,\* results(): user_rankings, as left by the last call
    data          \* the response of results() for these lists, NoData before

engineVars == <<candidates, criteria, votes, wp_scores, user_rankings, data>>

serviceVars == <<MOCK_MODE, MEM, db, ok_responses, last, workers>>

vars == <<MOCK_MODE, MEM, db, ok_responses, last, workers,
          candidates, criteria, votes, wp_scores, user_rankings, data>>

\* ------------------------------------------------------------ results()

Max(a, b) == IF a > b THEN a ELSE b
Min(a, b) == IF a < b THEN a ELSE b

\* user_groups: the users with at least one vote
UserGroupKeys(vs) == { vs[i].userId : i \in DOMAIN vs }

\* user_groups[user][cand][crit], the last vote of the triple winning;
\* scores_for_candidate.get(crit_id, 1) when there is none
ScoreFor(vs, user, cand, crit) ==
    LET idx == { i \in DOMAIN vs : /\ vs[i].userId = user
                                   /\ vs[i].candidateId = cand
                                   /\ vs[i].criteriaId = crit }
    IN IF idx = {} THEN 1
       ELSE vs[CHOOSE i \in idx : \A j \in idx : j <= i].scoreValue

One == [n |-> 1, d |-> 1]

Times(a, b) == [n |-> a.n * b.n, d |-> a.d * b.d]

\* pow(x, e) for the exponents 1.0, 0 and -1.0
Pow(x, e) ==
    IF e = 0 THEN One
    ELSE IF e > 0 THEN x
    ELSE [n |-> x.d, d |-> x.n]

\* x = max(1, min(100, score)) / 100.0
Normalize(score) == [n |-> Max(1, Min(100, score)), d |-> 100]

\* mutant: the Cost branch forgotten
FactorIgnoringType(crit, score) == Pow(Normalize(score), crit.weight)

Factor(crit, score) ==
    LET x == Normalize(score)
        w == crit.weight
    IN IF crit.type = "Cost"
       THEN Pow(x, IF w # 0 THEN 0 - w ELSE 0)
       ELSE Pow(x, w)

RECURSIVE WPProduct(_, _, _, _, _)
WPProduct(vs, crits, user, cid, i) ==
    IF i = 0 THEN One
    ELSE Times(WPProduct(vs, crits, user, cid, i - 1),
               Factor(crits[i], ScoreFor(vs, user, cid, crits[i].id)))

\* S[cid] of one user
WPScore(vs, crits, user, cid) == WPProduct(vs, crits, user, cid, Len(crits))

FloatGt(a, b) == a.n * b.d > b.n * a.d

\* mutant: a descending sort made by reversing an ascending one, which turns
\* the order of equal keys around
InsertRankedBeforeTies(sorted, cid, S) ==
    LET before == { i \in DOMAIN sorted : FloatGt(S[sorted[i]], S[cid]) }
        k == Cardinality(before)
    IN SubSeq(sorted, 1, k) \o <<cid>> \o SubSeq(sorted, k + 1, Len(sorted))

\* sorted(..., reverse=True) is stable: an element goes after every element
\* whose key is greater than or equal to its own
InsertRanked(sorted, cid, S) ==
    LET before == { i \in DOMAIN sorted : ~FloatGt(S[cid], S[sorted[i]]) }
        k == Cardinality(before)
    IN SubSeq(sorted, 1, k) \o <<cid>> \o SubSeq(sorted, k + 1, Len(sorted))

RECURSIVE RankPrefix(_, _, _)
RankPrefix(ids, S, i) ==
    IF i = 0 THEN <<>>
    ELSE InsertRanked(RankPrefix(ids, S, i - 1), ids[i], S)

\* S of every user in user_groups
WPScores(vs, cands, crits) ==
    [user \in UserGroupKeys(vs) |->
        [cid \in { cands[i].id : i \in DOMAIN cands } |->
            WPScore(vs, crits, user, cid)]]

\* ranked = sorted(candidate_ids, key=lambda k: S[k], reverse=True)
RankedFor(cands, S) ==
    LET ids == [i \in DOMAIN cands |-> cands[i].id]
    IN RankPrefix(ids, S, Len(ids))

UserRankings(cands, scores) ==
    [user \in DOMAIN scores |-> RankedFor(cands, scores[user])]

\* mutant: points = N - idx with idx counted from 1
RECURSIVE RankingPointsFromOne(_, _, _, _)
RankingPointsFromOne(ranking, cid, N, i) ==
    IF i = 0 THEN 0
    ELSE RankingPointsFromOne(ranking, cid, N, i - 1)
         + (IF ranking[i] = cid THEN N - i ELSE 0)

\* the points one ranking adds to total_points[cid]
RECURSIVE RankingPoints(_, _, _, _)
RankingPoints(ranking, cid, N, i) ==
    IF i = 0 THEN 0
    ELSE RankingPoints(ranking, cid, N, i - 1)
         + (IF ranking[i] = cid THEN N - (i - 1) ELSE 0)

RECURSIVE SumPoints(_, _, _, _)
SumPoints(rankings, users, cid, N) ==
    IF users = {} THEN 0
    ELSE LET u == CHOOSE x \in users : TRUE
         IN RankingPoints(rankings[u], cid, N, Len(rankings[u]))
            + SumPoints(rankings, users \ {u}, cid, N)

TotalPoints(cands, rankings) ==
    LET N == Len(cands)
    IN [cid \in { cands[i].id : i \in DOMAIN cands } |->
          SumPoints(rankings, DOMAIN rankings, cid, N)]

Enriched(cands, rankings) ==
    LET total_points == TotalPoints(cands, rankings)
    IN [i \in DOMAIN cands |->
          [candidateId |-> cands[i].id,
           totalBordaPoints |-> total_points[cands[i].id]]]

\* mutant: reverse=True forgotten
InsertEnrichedAscending(sorted, item) ==
    LET before == { i \in DOMAIN sorted :
                      sorted[i].totalBordaPoints <= item.totalBordaPoints }
        k == Cardinality(before)
    IN SubSeq(sorted, 1, k) \o <<item>> \o SubSeq(sorted, k + 1, Len(sorted))

\* enriched.sort(key=totalBordaPoints, reverse=True), stable
InsertEnriched(sorted, item) ==
    LET before == { i \in DOMAIN sorted :
                      sorted[i].totalBordaPoints >= item.totalBordaPoints }
        k == Cardinality(before)
    IN SubSeq(sorted, 1, k) \o <<item>> \o SubSeq(sorted, k + 1, Len(sorted))

RECURSIVE SortEnriched(_, _)
SortEnriched(enriched, i) ==
    IF i = 0 THEN <<>>
    ELSE InsertEnriched(SortEnriched(enriched, i - 1), enriched[i])

\* mutant: rank += 1 at every new point total (ranks without gaps)
RECURSIVE RankAfterDense(_, _)
RankAfterDense(sorted, i) ==
    IF i = 0 THEN [rank |-> 0, last_points |-> -1]
    ELSE LET prev == RankAfterDense(sorted, i - 1)
         IN IF sorted[i].totalBordaPoints # prev.last_points
            THEN [rank |-> prev.rank + 1,
                  last_points |-> sorted[i].totalBordaPoints]
            ELSE prev

\* the rank loop: rank and last_points after the first i items
RECURSIVE RankAfter(_, _)
RankAfter(sorted, i) ==
    IF i = 0 THEN [rank |-> 0, last_points |-> -1]
    ELSE LET prev == RankAfter(sorted, i - 1)
         IN IF sorted[i].totalBordaPoints # prev.last_points
            THEN [rank |-> i, last_points |-> sorted[i].totalBordaPoints]
            ELSE prev

AssignRanks(sorted) ==
    [i \in DOMAIN sorted |->
        [candidateId |-> sorted[i].candidateId,
         totalBordaPoints |-> sorted[i].totalBordaPoints,
         rank |-> RankAfter(sorted, i).rank]]

\* the final table of results() from its user_rankings
FinalTable(cands, rankings) ==
    LET enriched == Enriched(cands, rankings)
    IN AssignRanks(SortEnriched(enriched, Len(enriched)))

NoLocals == [user \in {} |-> <<>>]

\* the body of results() from the three lists: its locals S and user_rankings
\* at the return, and the "data" it returns
ResultsRun(vs, cands, crits) ==
    IF cands = <<>>
    THEN [S |-> NoLocals, user_rankings |-> NoLocals, data |-> <<>>]
    ELSE LET scores == WPScores(vs, cands, crits)
             rankings == UserRankings(cands, scores)
         IN [S |-> scores, user_rankings |-> rankings,
             data |-> FinalTable(cands, rankings)]

Results(vs, cands, crits) == ResultsRun(vs, cands, crits).data

\* ------------------------------------------------------------ the stores

DEFAULT_CANDIDATES == [i \in DOMAIN AllCandidateIds |-> [id |-> AllCandidateIds[i]]]

\* the weights 0.4, 0.3, 0.3 in tenths; POST /rate reads the ids only
DEFAULT_CRITERIA ==
    << [id |-> "coding", tenths |-> 4, type |-> "Benefit"],
       [id |-> "comm", tenths |-> 3, type |-> "Benefit"],
       [id |-> "exp", tenths |-> 3, type |-> "Benefit"] >>

dm_users == <<"dm-1", "dm-2", "dm-3">>

\* base = 60 + rng.randint(-20, 20) of random.Random(42), in the order drawn
RngBase ==
    << 80, 47, 41, 57, 55, 54, 48, 46, 74, 45, 77, 67, 42, 41, 45,
       53, 54, 72, 78, 41, 75, 52, 74, 66, 54, 68, 77, 57, 40, 50,
       67, 61, 57, 49, 53, 61, 46, 45, 64, 46, 62, 62, 78, 56, 42 >>

EmptyMem == [candidates |-> <<>>, criteria |-> <<>>, votes |-> <<>>, users |-> <<>>]

EmptyDb == [candidate |-> <<>>, criterion |-> <<>>, vote |-> <<>>]

\* the demo votes: for u in dm_users, for cand, for crit, one vote each
SeedVotes(cands, crits, adjust) ==
    LET nk == Len(crits)
        per == Len(cands) * nk
    IN [n \in 1..(Len(dm_users) * per) |->
          [userId |-> dm_users[((n - 1) \div per) + 1],
           candidateId |-> cands[(((n - 1) % per) \div nk) + 1].id,
           criteriaId |-> crits[((n - 1) % nk) + 1].id,
           scoreValue |-> Max(1, Min(100, RngBase[n] + adjust))]]

SeedMockIfNeeded(mem, adjust) ==
    LET cands == IF mem.candidates = <<>> THEN DEFAULT_CANDIDATES
                 ELSE mem.candidates
        crits == IF mem.criteria = <<>> THEN DEFAULT_CRITERIA ELSE mem.criteria
    IN IF mem.votes = <<>>
       THEN [candidates |-> cands, criteria |-> crits,
             votes |-> SeedVotes(cands, crits, adjust),
             users |-> mem.users \o dm_users]
       ELSE [candidates |-> cands, criteria |-> crits,
             votes |-> mem.votes, users |-> mem.users]

\* ensure_seed_data(); dbFails: the first database call raises, which the
\* except clause turns into mock mode
EnsureSeedData(mode, mem, d, dbFails, adjust) ==
    IF mode
    THEN [MOCK_MODE |-> TRUE, MEM |-> SeedMockIfNeeded(mem, adjust), db |-> d]
    ELSE IF dbFails
    THEN [MOCK_MODE |-> TRUE, MEM |-> SeedMockIfNeeded(mem, adjust), db |-> d]
    ELSE [MOCK_MODE |-> FALSE, MEM |-> mem,
          db |-> [candidate |-> IF d.candidate = <<>> THEN DEFAULT_CANDIDATES
                                ELSE d.candidate,
                  criterion |-> IF d.criterion = <<>> THEN DEFAULT_CRITERIA
                                ELSE d.criterion,
                  vote |-> d.vote]]

\* get_all_criteria() after ensure_seed_data()
GetAllCriteria(st) == IF st.MOCK_MODE THEN st.MEM.criteria ELSE st.db.criterion

\* ------------------------------------------------------------ rate_candidate()

Response(status, detail, inserted) ==
    [status |-> status, detail |-> detail, inserted |-> inserted]

NoResponse == Response(0, "", 0)

\* mutant: only the first score's criteriaId is looked up
InvalidCriteriaFirstOnly(crits, scores) ==
    /\ scores # <<>>
    /\ scores[1].criteriaId \notin { crits[i].id : i \in DOMAIN crits }

\* the validation loop raises for some s in payload.scores
InvalidCriteria(crits, scores) ==
    \E i \in DOMAIN scores :
        scores[i].criteriaId \notin { crits[k].id : k \in DOMAIN crits }

\* has / existing: a stored vote of this user for this candidate
AlreadyRated(stored, payload) ==
    \E i \in DOMAIN stored :
        /\ stored[i].userId = payload.userId
        /\ stored[i].candidateId = payload.candidateId

\* the records appended, one per score, in the order of payload.scores
VoteDocs(payload) ==
    [i \in DOMAIN payload.scores |->
        [userId |-> payload.userId,
         candidateId |-> payload.candidateId,
         criteriaId |-> payload.scores[i].criteriaId,
         scoreValue |-> payload.scores[i].scoreValue]]

\* the vote list of the branch taken at "if MOCK_MODE"
StoredVotes(st) == IF st.MOCK_MODE THEN st.MEM.votes ELSE st.db.vote

WithVotes(st, vs) ==
    IF st.MOCK_MODE
    THEN [st EXCEPT !.MEM.votes = vs]
    ELSE [st EXCEPT !.db.vote = vs]

\* rate_candidate(payload) on the stores ensure_seed_data() left: the stores
\* after it and its response
RateOn(st, payload) ==
    IF InvalidCriteria(GetAllCriteria(st), payload.scores)
    THEN [st |-> st, response |-> Response(400, "Invalid criteria", 0)]
    ELSE IF AlreadyRated(StoredVotes(st), payload)
    THEN [st |-> st, response |-> Response(400, "already rated", 0)]
    ELSE [st |-> WithVotes(st, StoredVotes(st) \o VoteDocs(payload)),
          response |-> Response(200, "ok", Len(payload.scores))]

Pair(payload) == <<payload.userId, payload.candidateId>>

RECURSIVE SumOk(_, _)
SumOk(count, pairs) ==
    IF pairs = {} THEN 0
    ELSE LET p == CHOOSE x \in pairs : TRUE
         IN count[p] + SumOk(count, pairs \ {p})

TotalOk == SumOk(ok_responses, DOMAIN ok_responses)

IdleWorker == [pc |-> "idle", payload |-> <<>>, mock |-> FALSE]

ServiceStart ==
    /\ MEM = EmptyMem
    /\ db = EmptyDb
    /\ ok_responses = [p \in RateUserIds \X RateCandidateIds |-> 0]
    /\ last = NoResponse
    /\ workers = [w \in WorkerIds |-> IdleWorker]

EngineIdle ==
    /\ candidates = <<>>
    /\ criteria = <<>>
    /\ votes = <<>>
    /\ wp_scores = NoLocals
    /\ user_rankings = NoLocals
    /\ data = NoData

\* ------------------------------------------------------------ Spec

Init ==
    /\ MOCK_MODE \in BOOLEAN
    /\ ServiceStart
    /\ EngineIdle

\* POST /rate, served alone from the request to the response
RateCandidate(payload, dbFails, adjust) ==
    LET st == EnsureSeedData(MOCK_MODE, MEM, db, dbFails, adjust)
        out == RateOn(st, payload)
        ok == out.response.detail = "ok"
    IN /\ ok => TotalOk < MaxRates
       /\ MOCK_MODE' = out.st.MOCK_MODE
       /\ MEM' = out.st.MEM
       /\ db' = out.st.db
       /\ last' = out.response
       /\ ok_responses' = IF ok
                          THEN [ok_responses EXCEPT ![Pair(payload)] = @ + 1]
                          ELSE ok_responses
       /\ UNCHANGED <<workers, engineVars>>

\* GET /candidates and GET /criteria: ensure_seed_data() and a read
ListCatalog(dbFails, adjust) ==
    LET st == EnsureSeedData(MOCK_MODE, MEM, db, dbFails, adjust)
    IN /\ MOCK_MODE' = st.MOCK_MODE
       /\ MEM' = st.MEM
       /\ db' = st.db
       /\ last' = Response(200, "catalog", 0)
       /\ UNCHANGED <<ok_responses, workers, engineVars>>

Next ==
    \/ \E payload \in RatePayloads, dbFails \in BOOLEAN, adjust \in AdjustValues :
          RateCandidate(payload, dbFails, adjust)
    \/ \E dbFails \in BOOLEAN, adjust \in AdjustValues :
          ListCatalog(dbFails, adjust)

Spec == Init /\ [][Next]_vars

\* ------------------------------------------------------------ ConcSpec

\* lines 244-247 of a request a worker takes up: the catalog read and the
\* validation loop
RateValidate(w, payload, dbFails, adjust) ==
    LET st == EnsureSeedData(MOCK_MODE, MEM, db, dbFails, adjust)
        invalid == InvalidCriteria(GetAllCriteria(st), payload.scores)
    IN /\ workers[w].pc = "idle"
       /\ MOCK_MODE' = st.MOCK_MODE
       /\ MEM' = st.MEM
       /\ db' = st.db
       /\ IF invalid
          THEN /\ last' = Response(400, "Invalid criteria", 0)
               /\ UNCHANGED workers
          ELSE /\ workers' = [workers EXCEPT ![w] =
                    [pc |-> "guard", payload |-> payload, mock |-> FALSE]]
               /\ UNCHANGED last
       /\ UNCHANGED <<ok_responses, engineVars>>

\* "if MOCK_MODE" and the duplicate check of the branch taken (251-253, 269-271)
RateGuard(w) ==
    LET st == [MOCK_MODE |-> MOCK_MODE, MEM |-> MEM, db |-> db]
    IN /\ workers[w].pc = "guard"
       /\ IF AlreadyRated(StoredVotes(st), workers[w].payload)
          THEN /\ last' = Response(400, "already rated", 0)
               /\ workers' = [workers EXCEPT ![w] = IdleWorker]
          ELSE /\ workers' = [workers EXCEPT ![w].pc = "insert",
                                             ![w].mock = MOCK_MODE]
               /\ UNCHANGED last
       /\ UNCHANGED <<MOCK_MODE, MEM, db, ok_responses, engineVars>>

\* the appends or insert_many of the branch taken, and the response (254-264,
\* 273-287)
RateInsert(w) ==
    LET payload == workers[w].payload
        st == [MOCK_MODE |-> workers[w].mock, MEM |-> MEM, db |-> db]
        after == WithVotes(st, StoredVotes(st) \o VoteDocs(payload))
    IN /\ workers[w].pc = "insert"
       /\ TotalOk < MaxRates
       /\ MEM' = after.MEM
       /\ db' = after.db
       /\ last' = Response(200, "ok", Len(payload.scores))
       /\ ok_responses' = [ok_responses EXCEPT ![Pair(payload)] = @ + 1]
       /\ workers' = [workers EXCEPT ![w] = IdleWorker]
       /\ UNCHANGED <<MOCK_MODE, engineVars>>

\* the requests the two workers take up: at most one score each
ConcPayloads == { p \in RatePayloads : Len(p.scores) <= 1 }

ConcNext ==
    \/ \E w \in WorkerIds, payload \in ConcPayloads,
          dbFails \in BOOLEAN, adjust \in AdjustValues :
          RateValidate(w, payload, dbFails, adjust)
    \/ \E w \in WorkerIds : RateGuard(w)
    \/ \E w \in WorkerIds : RateInsert(w)

ConcSpec == Init /\ [][ConcNext]_vars

\* ------------------------------------------------------------ EngineSpec

EngineInit ==
    /\ MOCK_MODE = FALSE
    /\ ServiceStart
    /\ candidates \in CandidateLists
    /\ criteria \in Catalogs
    /\ votes = <<>>
    /\ wp_scores = NoLocals
    /\ user_rankings = NoLocals
    /\ data = NoData

\* one more record in the vote collection
AddVote(v) ==
    /\ Len(votes) < MaxVotes
    /\ votes' = Append(votes, v)
    /\ wp_scores' = NoLocals
    /\ user_rankings' = NoLocals
    /\ data' = NoData
    /\ UNCHANGED <<candidates, criteria, serviceVars>>

\* GET /results over the three lists
GetResults ==
    /\ data = NoData
    /\ LET run == ResultsRun(votes, candidates, criteria)
       IN /\ wp_scores' = run.S
          /\ user_rankings' = run.user_rankings
          /\ data' = [status |-> 200, data |-> run.data]
    /\ UNCHANGED <<candidates, criteria, votes, serviceVars>>

EngineNext ==
    \/ \E v \in EngineVotes : AddVote(v)
    \/ GetResults

EngineSpec == EngineInit /\ [][EngineNext]_vars

\* ------------------------------------------------------------ SingleSpec

SingleCatalogs ==
    { <<[id |-> "k1", weight |-> 1, type |-> t]>> : t \in {"Benefit", "Cost"} }

SingleScoreSet == {20, 60, 80, 100}

SingleVotes ==
    [userId : {"u1"}, candidateId : VoteCandidateIds,
     criteriaId : {"k1"}, scoreValue : SingleScoreSet]

SingleInit ==
    /\ MOCK_MODE = FALSE
    /\ ServiceStart
    /\ candidates \in CandidateLists \ {<<>>}
    /\ criteria \in SingleCatalogs
    /\ votes = <<>>
    /\ wp_scores = NoLocals
    /\ user_rankings = NoLocals
    /\ data = NoData

\* one more record of the single user in the vote collection
AddSingleVote(v) ==
    /\ Len(votes) < MaxSingleVotes
    /\ votes' = Append(votes, v)
    /\ wp_scores' = NoLocals
    /\ user_rankings' = NoLocals
    /\ data' = NoData
    /\ UNCHANGED <<candidates, criteria, serviceVars>>

SingleNext ==
    \/ \E v \in SingleVotes : AddSingleVote(v)
    \/ GetResults

SingleSpec == SingleInit /\ [][SingleNext]_vars

\* ------------------------------------------------------------ claims on POST /rate

\* every request so far was served from the in-memory store: the database
\* catalog was never seeded
AlwaysMock == MOCK_MODE /\ db.criterion = <<>>

\* C1 (as claimed): of two /rate submissions in sequence for the same
\* (userId, candidateId), with any score lists whose criteriaIds all exist, the
\* second is rejected with 400 and stores nothing: no pair is ever answered "ok"
\* twice by one store.
C1_SecondSubmissionRejected ==
    AlwaysMock => \A p \in DOMAIN ok_responses : ok_responses[p] <= 1

\* C2 (as claimed): the duplicate guard is atomic with the insert: two /rate
\* requests for the same (userId, candidateId) are never both past the "not
\* already rated" check with neither having inserted (here: in the in-memory
\* branch, each with a score to store).
C2_GuardAtomicWithInsert ==
    \A w1, w2 \in WorkerIds :
        ~ /\ w1 # w2
          /\ workers[w1].pc = "insert" /\ workers[w2].pc = "insert"
          /\ workers[w1].mock /\ workers[w2].mock
          /\ workers[w1].payload.scores # <<>>
          /\ workers[w2].payload.scores # <<>>
          /\ Pair(workers[w1].payload) = Pair(workers[w2].payload)

\* C3 (as claimed): in every state reached by seeding and /rate requests the
\* vote store (here: MEM["votes"]) holds at most one record per
\* (userId, candidateId, criteriaId).
OnePerTriple(stored) ==
    \A i, j \in DOMAIN stored :
        i < j => \/ stored[i].userId # stored[j].userId
                 \/ stored[i].candidateId # stored[j].candidateId
                 \/ stored[i].criteriaId # stored[j].criteriaId

C3_OneVotePerTriple == OnePerTriple(MEM.votes)

KnownCriteria(stored) ==
    \A i \in DOMAIN stored :
        stored[i].criteriaId \in { DEFAULT_CRITERIA[k].id : k \in DOMAIN DEFAULT_CRITERIA }

IsSeed(stored) ==
    \E adjust \in AdjustValues :
        stored = SeedVotes(DEFAULT_CANDIDATES, DEFAULT_CRITERIA, adjust)

\* C4 (as claimed): a /rate request with a criteriaId that is not in the
\* catalog is answered 400 and leaves the vote store unchanged.
C4_AsClaimed ==
    [][last'.detail = "Invalid criteria" =>
          /\ last'.status = 400
          /\ MEM'.votes = MEM.votes
          /\ db'.vote = db.vote]_vars

\* C4 (amended): a /rate request with a criteriaId that is not in the catalog
\* is answered 400 and stores none of its scores, the valid ones included: the
\* database votes are unchanged, and the in-memory votes are unchanged or, when
\* there were none, are the demo votes that ensure_seed_data() seeds; so no
\* stored vote ever names a criterion outside the catalog.
C4_InvalidStoresNoScore ==
    [][/\ last'.detail = "Invalid criteria" =>
            /\ last'.status = 400
            /\ db'.vote = db.vote
            /\ \/ MEM'.votes = MEM.votes
               \/ MEM.votes = <<>> /\ IsSeed(MEM'.votes)
       /\ KnownCriteria(MEM'.votes)
       /\ KnownCriteria(db'.vote)]_vars

\* a request is rejected for its criteriaId after another was accepted
C4_Witness ==
    /\ last.detail = "Invalid criteria"
    /\ last.status = 400
    /\ TotalOk > 0

\* ------------------------------------------------------------ claims on results()

Rows == data.data

Answered == data.status = 200 /\ candidates # <<>>

CandidateIdSet == { candidates[i].id : i \in DOMAIN candidates }

CriteriaIdSet == { criteria[i].id : i \in DOMAIN criteria }

\* the 1-based place of x in a sequence that holds it once
PlaceIn(seq, x) == CHOOSE i \in DOMAIN seq : seq[i] = x

RowOf(cid) == CHOOSE j \in DOMAIN Rows : Rows[j].candidateId = cid

RECURSIVE SumOfPoints(_, _)
SumOfPoints(rows, i) ==
    IF i = 0 THEN 0 ELSE SumOfPoints(rows, i - 1) + rows[i].totalBordaPoints

RECURSIVE SumOver(_, _)
SumOver(users, cid) ==
    IF users = {} THEN 0
    ELSE LET u == CHOOSE x \in users : TRUE
         IN (Len(candidates) - (PlaceIn(user_rankings[u], cid) - 1))
            + SumOver(users \ {u}, cid)

\* C5 (as claimed): a vote whose candidateId is not in the candidate list or
\* whose criteriaId is not in the criteria list, from any userId, appended to the
\* vote list leaves the ranked result of GET /results unchanged.
StrayVotes ==
    { v \in [userId : EngineUserIds,
             candidateId : VoteCandidateIds \cup {"ghost"},
             criteriaId : {"k1", "k2", "ghost"},
             scoreValue : ScoreSet] :
        v.candidateId \notin CandidateIdSet \/ v.criteriaId \notin CriteriaIdSet }

C5_StrayVotesInert ==
    Answered =>
        \A v \in StrayVotes :
            Results(Append(votes, v), candidates, criteria) = Rows

\* C6: for a non-empty candidate list GET /results returns exactly one row per
\* candidate, none repeated and none foreign, in non-increasing order of
\* totalBordaPoints.
C6_OnePerCandidateSorted ==
    Answered =>
        /\ Len(Rows) = Len(candidates)
        /\ \A cid \in CandidateIdSet :
              Cardinality({ j \in DOMAIN Rows : Rows[j].candidateId = cid }) = 1
        /\ \A j \in DOMAIN Rows : Rows[j].candidateId \in CandidateIdSet
        /\ \A j \in 1..(Len(Rows) - 1) :
              Rows[j].totalBordaPoints >= Rows[j + 1].totalBordaPoints

C6_Witness ==
    /\ Answered
    /\ Len(candidates) = 3
    /\ Rows[1].candidateId # candidates[1].id
    /\ Rows[1].totalBordaPoints > Rows[3].totalBordaPoints

C8_BordaTotals ==
    Answered =>
        LET N == Len(candidates)
            users == { votes[i].userId : i \in DOMAIN votes }
        IN /\ DOMAIN user_rankings = users
           /\ \A u \in users :
                 /\ Len(user_rankings[u]) = N
                 /\ \A cid \in CandidateIdSet :
                       Cardinality({ i \in DOMAIN user_rankings[u] :
                                       user_rankings[u][i] = cid }) = 1
           /\ \A cid \in CandidateIdSet :
                 Rows[RowOf(cid)].totalBordaPoints = SumOver(users, cid)
           /\ 2 * SumOfPoints(Rows, Len(Rows)) = Cardinality(users) * N * (N + 1)

\* two users vote, and cand-3 is scored by nobody
C8_Witness ==
    /\ Answered
    /\ Len(candidates) = 3
    /\ Cardinality(DOMAIN user_rankings) = 2
    /\ \A i \in DOMAIN votes : votes[i].candidateId # "cand-3"
    /\ Rows[RowOf("cand-3")].totalBordaPoints > 0

\* C9: one user, one criterion of weight 1.0, every candidate scored, the
\* scores pairwise distinct.
RawScore(cid) == ScoreFor(votes, "u1", cid, "k1")

SingleCase ==
    /\ Answered
    /\ Len(criteria) = 1 /\ criteria[1].weight = 1
    /\ { votes[i].userId : i \in DOMAIN votes } = {"u1"}
    /\ \A cid \in CandidateIdSet :
          \E i \in DOMAIN votes :
              votes[i].candidateId = cid /\ votes[i].criteriaId = criteria[1].id
    /\ \A c1, c2 \in CandidateIdSet : c1 # c2 => RawScore(c1) # RawScore(c2)

BordaExample ==
    /\ SingleCase
    /\ criteria[1].type = "Benefit"
    /\ Len(candidates) = 3
    /\ <<RawScore("cand-1"), RawScore("cand-2"), RawScore("cand-3")>>
         = <<80, 60, 100>>

PointsByCandidate == [i \in DOMAIN candidates |->
                        Rows[RowOf(candidates[i].id)].totalBordaPoints]

PointsByRow == [j \in DOMAIN Rows |-> Rows[j].totalBordaPoints]

OrderedByRawScore ==
    SingleCase =>
        \A j, k \in DOMAIN Rows :
            j < k =>
              IF criteria[1].type = "Benefit"
              THEN RawScore(Rows[j].candidateId) > RawScore(Rows[k].candidateId)
              ELSE RawScore(Rows[j].candidateId) < RawScore(Rows[k].candidateId)

\* C9 (as claimed): a Benefit criterion lists the candidates by descending raw
\* score, a Cost criterion by ascending raw score, and the scores [80,60,100]
\* give the Borda points [3,1,2] (read by candidate or by result row).
C9_AsClaimed ==
    /\ OrderedByRawScore
    /\ BordaExample =>
          (PointsByCandidate = <<3, 1, 2>> \/ PointsByRow = <<3, 1, 2>>)

\* C9 (amended): a Benefit criterion lists the candidates by descending raw
\* score, a Cost criterion by ascending raw score, and the scores [80,60,100]
\* of cand-1, cand-2, cand-3 give them the Borda points [2,1,3], the result
\* listing cand-3, cand-1, cand-2 with the points [3,2,1].
C9_OrderAndPoints ==
    /\ OrderedByRawScore
    /\ BordaExample =>
          /\ PointsByCandidate = <<2, 1, 3>>
          /\ PointsByRow = <<3, 2, 1>>
          /\ [j \in DOMAIN Rows |-> Rows[j].candidateId]
                = <<"cand-3", "cand-1", "cand-2">>

C9_Witness == BordaExample

\* a Cost criterion, the candidate with the lower raw score first
C9_CostReached ==
    /\ SingleCase
    /\ criteria[1].type = "Cost"
    /\ Len(candidates) >= 2
    /\ RawScore(Rows[1].candidateId) < RawScore(Rows[2].candidateId)

\* C10: ties keep the candidate list's order at both sorts: of two candidates
\* with equal S for a user the earlier one comes first in that user's list (and
\* so gets more points from that user), and of two candidates with equal totals
\* the earlier one comes first in the result.
SameScore(a, b) == ~FloatGt(a, b) /\ ~FloatGt(b, a)

C10_TiesKeepListOrder ==
    Answered =>
        \A i, j \in DOMAIN candidates :
              i < j =>
                /\ \A u \in DOMAIN user_rankings :
                      SameScore(wp_scores[u][candidates[i].id],
                                wp_scores[u][candidates[j].id])
                      => PlaceIn(user_rankings[u], candidates[i].id)
                           < PlaceIn(user_rankings[u], candidates[j].id)
                /\ Rows[RowOf(candidates[i].id)].totalBordaPoints
                     = Rows[RowOf(candidates[j].id)].totalBordaPoints
                   => RowOf(candidates[i].id) < RowOf(candidates[j].id)

\* a user ranks cand-3 first and ties cand-1 with cand-2; the totals of two
\* candidates are equal and not zero
C10_Witness ==
    /\ Answered
    /\ Len(candidates) = 3
    /\ \E u \in DOMAIN user_rankings :
          /\ user_rankings[u] = <<"cand-3", "cand-1", "cand-2">>
          /\ SameScore(wp_scores[u]["cand-1"], wp_scores[u]["cand-2"])
    /\ \E j \in 1..2 :
          /\ Rows[j].totalBordaPoints = Rows[j + 1].totalBordaPoints
          /\ Rows[j].totalBordaPoints > 0

====
